---- MODULE Spec2Model ----
(***************************************************************************)
(* Attendance kiosk (src/kiosk/kiosk.py) and its backend                   *)
(* (src/backend/backend.py): the presence tracker loop, the kiosk control  *)
(* flag, the clock_event toggle arbitration and the hours report.          *)
(*                                                                         *)
(* Time is the wall clock in whole seconds.  The kiosk's timers use 0.0 as *)
(* "unset"; the real clock is an epoch time far above every threshold, so  *)
(* the model's clock starts at StartTime, above all of them.               *)
(***************************************************************************)
EXTENDS Integers, Sequences, FiniteSets, TLC

\* ---------------------------------------------------------------- bounds
StartTime == 20      \* the clock value when the kiosk starts
Horizon == 12        \* seconds the clock advances with the whole kiosk at play
PairHorizon == 32    \* seconds the two compared runs are followed
MaxExtras == 2       \* sightings given to one run only
MaxRows == 4         \* rows of a drawn attendance log
MaxCalls == 3        \* clock_event requests in one run
ClockLead == 2       \* minutes before midnight at which the server's run starts
ClockSpan == 5       \* minutes the server's clock advances
TrackerHorizon == 21 \* seconds the clock advances while the kiosk is left running
DeliveryHorizon == 20 \* seconds the kiosk is followed together with the log
PauseHorizon == 16   \* seconds the kiosk is followed through a pause
LiveSpan == 5        \* seconds the clock runs ahead before it is renumbered
GalleryWait == 57    \* attempts it takes to open the camera in the run with a gallery refresh
GalleryHorizon == 17 \* seconds that run is followed once the camera is open
MaxFaces == 2        \* faces matched in one frame
MaxExchanges == 3    \* control requests whose responses a run records

\* ------------------------------------------------------- program constants
MIN_DETECT_SECONDS == 10
COOLDOWN_SECONDS == 4
REFRESH_ENCODINGS_SECONDS == 300
CONTROL_POLL_SECONDS == 3
CAMERA_RETRY_SLEEP == 5
CAMERA_REINIT_SLEEP == 2
MinutesPerDay == 1440

Names == {"alice", "bob"}       \* the registered subjects
Visitors == {"alice"}           \* the subjects who walk past the camera

CLOCK_IN == "IN"
CLOCK_OUT == "OUT"
None == -1

VARIABLES
    \* the wall clock, and the clock value the run is followed to
    now,
    deadline,
    \* kiosk (kiosk.py)
    kpc,                    \* position of main(): start, camera, loop, stopped, crashed
    cap,                    \* the capture handle: none, opened, unopened, released
    known_names,
    presence_state,
    last_encoding_refresh,
    paused,
    shutdown_requested,
    process_frame,
    last_control_poll,
    dispatched,             \* per subject, the worker threads call_clock_event has started
    \* backend (backend.py)
    KIOSK_CONTROL,
    users,                  \* the users table, a user identified by its name
    attendance,             \* the attendance table, a set of rows
    clock,                  \* the server's clock, in minutes
    calls,                  \* the clock_event requests, each with its position and locals
    report,                 \* the latest response of get_total_hours
    \* observation of the run
    step,                   \* what the latest loop iteration of the current second did
    emitted,                \* per subject, the confirmed transitions so far: time, logged
                            \* type, whether the subject had been out of sight, and the
                            \* first sighting since the timer was last reset
    timer_start,            \* per subject, the first sighting since the timer was last reset
    unseen_gap,             \* per subject, a second passed without a sighting since the last transition
    \* two runs of the tracker on one subject, fed frame by frame
    runA, runB,             \* the subject's presence state in each run
    nextA, nextB,           \* when each run confirmed its first transition after the runs parted
    extras,                 \* the sightings only run B was given
    \* further observation, kept only in the runs that ask for it
    observing,              \* what this run records: a subset of {"control", "pause"}
    exchanges,              \* the control requests answered so far, with their responses
    paused_at, resumed_at,  \* when the kiosk last became paused, and last resumed
    lost                    \* per subject, the dispatch workers whose request never reached the server

kioskVars == <<kpc, cap, known_names, presence_state, last_encoding_refresh, paused,
               shutdown_requested, process_frame, last_control_poll, dispatched>>
ghostVars == <<step, emitted, timer_start, unseen_gap>>
backendVars == <<KIOSK_CONTROL, users, attendance, clock, calls, report>>
pairVars == <<runA, runB, nextA, nextB, extras>>
auxVars == <<observing, exchanges, lost>>
pauseVars == <<paused_at, resumed_at>>
vars == <<now, deadline, kioskVars, backendVars, ghostVars, pairVars, auxVars, pauseVars>>

\* ------------------------------------------------------------ presence state
\* load_encodings' setdefault value
NewPresence == [detected_since |-> 0, last_seen |-> 0, present |-> FALSE, last_marked |-> 0]

ShouldConfirmStrict(st, now_ts) ==
    /\ now_ts - st.detected_since > MIN_DETECT_SECONDS
    /\ now_ts - st.last_marked >= COOLDOWN_SECONDS

\* lines 209-210: the two nested tests
ShouldConfirm(st, now_ts) ==
    /\ now_ts - st.detected_since >= MIN_DETECT_SECONDS
    /\ now_ts - st.last_marked >= COOLDOWN_SECONDS

\* lines 203-206: start the timer, stamp the sighting
Sighted(st, now_ts) ==
    [st EXCEPT !.detected_since = IF st.detected_since = 0 THEN now_ts ELSE @,
               !.last_seen = now_ts]

ToggleKeepingTimer(st, now_ts) ==
    [st EXCEPT !.last_marked = now_ts, !.present = ~st.present]

\* lines 211-220: a confirmed transition
Toggle(st, now_ts) ==
    [st EXCEPT !.last_marked = now_ts, !.detected_since = 0, !.present = ~st.present]

ObserveUndebounced(st, now_ts) ==
    LET s == Sighted(st, now_ts)
    IN IF now_ts - s.detected_since >= MIN_DETECT_SECONDS
       THEN [s EXCEPT !.last_marked = now_ts, !.present = ~s.present]
       ELSE s

\* lines 200-222: one matched face of a subject
Observe(st, now_ts) ==
    LET s == Sighted(st, now_ts)
    IN IF ShouldConfirm(s, now_ts) THEN Toggle(s, now_ts) ELSE s

\* a transition is confirmed (and call_clock_event called, line 222) where present flips
Confirms(st, now_ts) == Observe(st, now_ts).present # st.present

\* lines 225-227: reset the detection streak of unseen subjects
ResetUnseen(ps, seen, now_ts) ==
    [n \in DOMAIN ps |->
        IF n \notin seen /\ now_ts - ps[n].last_seen > MIN_DETECT_SECONDS
        THEN [ps[n] EXCEPT !.detected_since = 0]
        ELSE ps[n]]

\* lines 183-222: the loop over the matched faces of one frame, in order
RECURSIVE ProcessFaces(_, _, _)
ProcessFaces(ps, faces, now_ts) ==
    IF faces = <<>> THEN ps
    ELSE LET n == Head(faces)
         IN ProcessFaces([ps EXCEPT ![n] = Observe(ps[n], now_ts)], Tail(faces), now_ts)

\* the subjects whose transition is confirmed while the faces are processed, in order
RECURSIVE ConfirmedIn(_, _, _)
ConfirmedIn(ps, faces, now_ts) ==
    IF faces = <<>> THEN <<>>
    ELSE LET n == Head(faces)
             rest == ConfirmedIn([ps EXCEPT ![n] = Observe(ps[n], now_ts)], Tail(faces), now_ts)
         IN IF Confirms(ps[n], now_ts) THEN <<n>> \o rest ELSE rest

SeqRange(s) == {s[i] : i \in 1..Len(s)}

\* the frames the resolver can return: up to MaxFaces matched faces of known subjects
\* (faces below the distance threshold; an unknown face is skipped at line 196)
Frames(known) == UNION {[1..k -> known \cap Visitors] : k \in 0..MaxFaces}

\* every matched subject of a frame (seen_names, line 199)
SeenNames(faces) == SeqRange(faces)

\* ------------------------------------------------------------ control flag
\* the command strings a client may post, and str.lower() on them
Commands == {"run", "pause", "shutdown", "stop", "RUN", "Pause", "STOP", "Shutdown", "reboot", ""}

Lower(c) ==
    CASE c = "RUN" -> "run"
      [] c = "Pause" -> "pause"
      [] c = "STOP" -> "stop"
      [] c = "Shutdown" -> "shutdown"
      [] OTHER -> c

\* poll_control, lines 108-117: the new (paused, shutdown_requested) for a polled command
PollPaused(cmd, p) ==
    IF Lower(cmd) = "pause" /\ ~p THEN TRUE
    ELSE IF Lower(cmd) = "run" /\ p THEN FALSE
    ELSE p

PollShutdown(cmd, p, sh) ==
    IF Lower(cmd) = "pause" /\ ~p THEN sh
    ELSE IF Lower(cmd) = "run" /\ p THEN sh
    ELSE IF Lower(cmd) = "shutdown" THEN TRUE
    ELSE sh

LoadedPresenceFresh(ps, names) == [n \in names |-> NewPresence]

\* load_encodings, lines 70-79: the gallery replaces known_names, new names get a state
LoadedPresence(ps, names) ==
    [n \in DOMAIN ps \cup names |-> IF n \in DOMAIN ps THEN ps[n] ELSE NewPresence]

\* ------------------------------------------------------------ observation of the run
NoStep == "none"

TypeOf(st) == IF st.present THEN CLOCK_IN ELSE CLOCK_OUT

Occurrences(faces, n) == Cardinality({i \in 1..Len(faces) : faces[i] = n})

\* the first sighting since the timer was last reset, after a frame is processed
TimerStartAfter(ts, ps0, faces, fired, resets, now_ts) ==
    [n \in Names |->
        IF n \in SeenNames(faces)
        THEN IF n \in fired
             THEN IF Occurrences(faces, n) > 1 THEN now_ts ELSE None
             ELSE IF ts[n] = None THEN now_ts ELSE ts[n]
        ELSE IF resets /\ n \in DOMAIN ps0 /\ now_ts - ps0[n].last_seen > MIN_DETECT_SECONDS
             THEN None
             ELSE ts[n]]

EmittedAfter(em, ps1, fired, now_ts) ==
    [n \in Names |->
        IF n \in fired
        THEN Append(em[n], [t |-> now_ts, type |-> TypeOf(ps1[n]), away |-> unseen_gap[n],
                            since |-> IF timer_start[n] = None THEN now_ts ELSE timer_start[n]])
        ELSE em[n]]

\* ------------------------------------------------------------ kiosk: main()
\* lines 125-127: the first gallery load
Startup(loadOK) ==
    /\ kpc = "start"
    /\ kpc' = "camera"
    /\ known_names' = IF loadOK THEN users ELSE known_names
    /\ presence_state' = IF loadOK THEN LoadedPresence(presence_state, users) ELSE presence_state
    /\ last_encoding_refresh' = now
    /\ UNCHANGED <<now, deadline, cap, paused, shutdown_requested, process_frame, last_control_poll,
                   dispatched, backendVars, ghostVars, pairVars, auxVars, pauseVars>>

\* lines 129-141: open the camera, retrying every 5 s
OpenCamera(opened) ==
    /\ kpc = "camera"
    /\ IF opened
       THEN /\ cap' = "opened"
            /\ kpc' = "loop"
            /\ process_frame' = TRUE
            /\ last_control_poll' = 0
            /\ now' = now
       ELSE /\ now + CAMERA_RETRY_SLEEP <= deadline
            /\ cap' = "unopened"
            /\ now' = now + CAMERA_RETRY_SLEEP
            /\ UNCHANGED <<kpc, process_frame, last_control_poll>>
    /\ UNCHANGED <<deadline, known_names, presence_state, last_encoding_refresh, paused,
                   shutdown_requested, dispatched, backendVars, ghostVars, pairVars, auxVars, pauseVars>>

\* ---- the main loop, lines 143-237.  One action per way through an iteration; each
\* ---- is the whole iteration.  pollOK, loadOK: the request succeeds (taken TRUE when
\* ---- the request is not due).
PollDue == now - last_control_poll > CONTROL_POLL_SECONDS

PausedAfterPollOnlyWhileRunning(pollOK) ==
    IF PollDue /\ pollOK /\ ~paused THEN PollPaused(KIOSK_CONTROL, paused) ELSE paused

PausedAfterPoll(pollOK) ==
    IF PollDue /\ pollOK THEN PollPaused(KIOSK_CONTROL, paused) ELSE paused

ShutdownAfterPoll(pollOK) ==
    IF PollDue /\ pollOK THEN PollShutdown(KIOSK_CONTROL, paused, shutdown_requested)
    ELSE shutdown_requested

RefreshDue == now - last_encoding_refresh > REFRESH_ENCODINGS_SECONDS

KnownAfterRefresh(loadOK) == IF RefreshDue /\ loadOK THEN users ELSE known_names

PresenceAfterRefresh(loadOK) ==
    IF RefreshDue /\ loadOK THEN LoadedPresence(presence_state, users) ELSE presence_state

LastPollAfter == IF PollDue THEN now ELSE last_control_poll

LastRefreshAfter == IF RefreshDue THEN now ELSE last_encoding_refresh

\* an iteration starts: main() is in the loop; a request that is not due has no outcome
InLoop(pollOK, loadOK) ==
    /\ kpc = "loop"
    /\ PollDue \/ pollOK
    /\ RefreshDue \/ loadOK

\* the kiosk's memory after an iteration that stays in the loop
Continue(c, known, ps, refreshed, p, sh, pf, polled) ==
    /\ kpc' = "loop"
    /\ cap' = c
    /\ known_names' = known
    /\ presence_state' = ps
    /\ last_encoding_refresh' = refreshed
    /\ paused' = p
    /\ shutdown_requested' = sh
    /\ process_frame' = pf
    /\ last_control_poll' = polled
    /\ paused_at' = IF "pause" \in observing /\ p /\ ~paused THEN now ELSE paused_at
    /\ resumed_at' = IF "pause" \in observing /\ ~p /\ paused THEN now ELSE resumed_at

\* main() ends (how: "stopped" through line 239, "crashed" by an exception): the
\* process exits and its memory is gone; the capture handle is released or not
Exit(how, c) ==
    /\ kpc' = how
    /\ cap' = c
    /\ known_names' = {}
    /\ presence_state' = << >>
    /\ last_encoding_refresh' = 0
    /\ paused' = FALSE
    /\ shutdown_requested' = FALSE
    /\ process_frame' = TRUE
    /\ last_control_poll' = 0
    /\ paused_at' = None
    /\ resumed_at' = None

\* lines 171-173 and 235-237, then 239: the q key breaks out of the loop
AfterWaitKey(quit, known, ps, refreshed, p, sh, pf, polled) ==
    IF quit THEN Exit("stopped", "released")
    ELSE Continue(cap, known, ps, refreshed, p, sh, pf, polled)

Did(kind, fired) ==
    /\ step' = kind
    /\ unseen_gap' = [n \in Names |-> IF n \in fired THEN FALSE ELSE unseen_gap[n]]

\* lines 144-150 and 239: the shutdown flag is set
IterShutdown(pollOK) ==
    /\ InLoop(pollOK, TRUE)
    /\ ShutdownAfterPoll(pollOK)
    /\ Exit("stopped", "released")
    /\ Did("shutdown", {})
    /\ UNCHANGED <<now, deadline, dispatched, emitted, timer_start, backendVars, pairVars, auxVars>>

\* lines 144-163: no frame; release, sleep 2 s, re-create the capture
IterReadFailed(pollOK, loadOK, reopened) ==
    /\ InLoop(pollOK, loadOK)
    /\ ~ShutdownAfterPoll(pollOK)
    /\ now + CAMERA_REINIT_SLEEP <= deadline
    /\ now' = now + CAMERA_REINIT_SLEEP
    /\ Continue(IF reopened THEN "opened" ELSE "unopened",
                KnownAfterRefresh(loadOK), PresenceAfterRefresh(loadOK), LastRefreshAfter,
                PausedAfterPoll(pollOK), ShutdownAfterPoll(pollOK), process_frame, LastPollAfter)
    /\ Did("read_failed", {})
    /\ UNCHANGED <<deadline, dispatched, emitted, timer_start, backendVars, pairVars, auxVars>>

IterPausedClearing(pollOK, loadOK, quit) ==
    /\ InLoop(pollOK, loadOK)
    /\ ~ShutdownAfterPoll(pollOK)
    /\ cap = "opened"
    /\ PausedAfterPoll(pollOK)
    /\ AfterWaitKey(quit, KnownAfterRefresh(loadOK),
                    [n \in DOMAIN PresenceAfterRefresh(loadOK) |->
                        [PresenceAfterRefresh(loadOK)[n] EXCEPT !.detected_since = 0]],
                    LastRefreshAfter, PausedAfterPoll(pollOK), ShutdownAfterPoll(pollOK),
                    process_frame, LastPollAfter)
    /\ Did(IF quit THEN "paused_quit" ELSE "paused", {})
    /\ UNCHANGED <<now, deadline, dispatched, emitted, timer_start, backendVars, pairVars, auxVars>>

\* lines 144-173: paused
IterPaused(pollOK, loadOK, quit) ==
    /\ InLoop(pollOK, loadOK)
    /\ ~ShutdownAfterPoll(pollOK)
    /\ cap = "opened"
    /\ PausedAfterPoll(pollOK)
    /\ AfterWaitKey(quit, KnownAfterRefresh(loadOK), PresenceAfterRefresh(loadOK),
                    LastRefreshAfter, PausedAfterPoll(pollOK), ShutdownAfterPoll(pollOK),
                    process_frame, LastPollAfter)
    /\ Did(IF quit THEN "paused_quit" ELSE "paused", {})
    /\ UNCHANGED <<now, deadline, dispatched, emitted, timer_start, backendVars, pairVars, auxVars>>

\* lines 144-175, 229-237: the frame that is not processed
IterSkipped(pollOK, loadOK, quit) ==
    /\ InLoop(pollOK, loadOK)
    /\ ~ShutdownAfterPoll(pollOK)
    /\ cap = "opened"
    /\ ~PausedAfterPoll(pollOK)
    /\ ~process_frame
    /\ AfterWaitKey(quit, KnownAfterRefresh(loadOK), PresenceAfterRefresh(loadOK),
                    LastRefreshAfter, PausedAfterPoll(pollOK), ShutdownAfterPoll(pollOK),
                    TRUE, LastPollAfter)
    /\ Did(IF quit THEN "quit" ELSE "skipped", {})
    /\ UNCHANGED <<now, deadline, dispatched, emitted, timer_start, backendVars, pairVars, auxVars>>

IterProcessIgnoringPause(pollOK, loadOK, faces, quit) ==
    /\ InLoop(pollOK, loadOK)
    /\ ~ShutdownAfterPoll(pollOK)
    /\ cap = "opened"
    /\ process_frame
    /\ faces \in Frames(KnownAfterRefresh(loadOK))
    /\ LET ps1 == PresenceAfterRefresh(loadOK)
           fired == SeqRange(ConfirmedIn(ps1, faces, now))
           ps2 == ProcessFaces(ps1, faces, now)
       IN /\ AfterWaitKey(quit, KnownAfterRefresh(loadOK),
                          ResetUnseen(ps2, SeenNames(faces), now), LastRefreshAfter,
                          PausedAfterPoll(pollOK), ShutdownAfterPoll(pollOK), FALSE, LastPollAfter)
          /\ emitted' = EmittedAfter(emitted, ps2, fired, now)
          /\ timer_start' = TimerStartAfter(timer_start, ps1, faces, fired, TRUE, now)
          /\ dispatched' = [n \in Names |-> dispatched[n] + IF n \in fired THEN 1 ELSE 0]
          /\ Did(IF quit THEN "quit" ELSE "processed", fired)
    /\ UNCHANGED <<now, deadline, backendVars, pairVars, auxVars>>

\* lines 144-237: the frame that is processed
IterProcess(pollOK, loadOK, faces, quit) ==
    /\ InLoop(pollOK, loadOK)
    /\ ~ShutdownAfterPoll(pollOK)
    /\ cap = "opened"
    /\ ~PausedAfterPoll(pollOK)
    /\ process_frame
    /\ faces \in Frames(KnownAfterRefresh(loadOK))
    /\ LET ps1 == PresenceAfterRefresh(loadOK)
           fired == SeqRange(ConfirmedIn(ps1, faces, now))
           ps2 == ProcessFaces(ps1, faces, now)
       IN /\ AfterWaitKey(quit, KnownAfterRefresh(loadOK),
                          ResetUnseen(ps2, SeenNames(faces), now), LastRefreshAfter,
                          PausedAfterPoll(pollOK), ShutdownAfterPoll(pollOK), FALSE, LastPollAfter)
          /\ emitted' = EmittedAfter(emitted, ps2, fired, now)
          /\ timer_start' = TimerStartAfter(timer_start, ps1, faces, fired, TRUE, now)
          /\ dispatched' = [n \in Names |-> dispatched[n] + IF n \in fired THEN 1 ELSE 0]
          /\ Did(IF quit THEN "quit" ELSE "processed", fired)
    /\ UNCHANGED <<now, deadline, backendVars, pairVars, auxVars>>

\* lines 176-222 have no handler around them: the resolver raises after `faces` were
\* handled; main() ends with the exception and line 239 is not reached
IterRaises(pollOK, loadOK, faces) ==
    /\ InLoop(pollOK, loadOK)
    /\ ~ShutdownAfterPoll(pollOK)
    /\ cap = "opened"
    /\ ~PausedAfterPoll(pollOK)
    /\ process_frame
    /\ faces \in Frames(KnownAfterRefresh(loadOK))
    /\ Len(faces) < MaxFaces
    /\ LET ps1 == PresenceAfterRefresh(loadOK)
           fired == SeqRange(ConfirmedIn(ps1, faces, now))
           ps2 == ProcessFaces(ps1, faces, now)
       IN /\ emitted' = EmittedAfter(emitted, ps2, fired, now)
          /\ timer_start' = TimerStartAfter(timer_start, ps1, faces, fired, FALSE, now)
          /\ dispatched' = [n \in Names |-> dispatched[n] + IF n \in fired THEN 1 ELSE 0]
          /\ Did("raised", fired)
    /\ Exit("crashed", cap)
    /\ UNCHANGED <<now, deadline, backendVars, pairVars, auxVars>>

\* one second passes
Tick ==
    /\ kpc \in {"start", "camera", "loop"}
    /\ now < deadline
    /\ now' = now + 1
    /\ unseen_gap' = [n \in Names |->
                        unseen_gap[n] \/ (n \notin DOMAIN presence_state)
                                      \/ (n \in DOMAIN presence_state /\ presence_state[n].last_seen # now)]
    /\ step' = NoStep
    /\ UNCHANGED <<deadline, kioskVars, backendVars, emitted, timer_start, pairVars, auxVars, pauseVars>>

\* one second passes in which the loop went round at least once: an iteration that
\* does not sleep takes well under a second
TickBusy ==
    /\ kpc = "loop" => step # NoStep
    /\ Tick

\* ------------------------------------------------------------ backend: control
\* post_kiosk_control, lines 219-222: lower-case the command, take stop for pause
NormalizedCommandNoAlias(c) == Lower(c)

NormalizedCommand(c) == IF Lower(c) = "stop" THEN "pause" ELSE Lower(c)

\* post_kiosk_control's status: get_current_admin (auth.py 50-71) answers 401 before the
\* body runs, line 224 answers 400, line 227 answers 200
PostStatus(c, authorized) ==
    IF ~authorized THEN 401
    ELSE IF NormalizedCommand(c) \notin {"run", "pause", "shutdown"} THEN 400
    ELSE 200

ControlAfterPostUnchecked(c, authorized) ==
    IF NormalizedCommand(c) \in {"run", "pause", "shutdown"} THEN NormalizedCommand(c)
    ELSE KIOSK_CONTROL

\* line 225 is reached only by an accepted write
ControlAfterPost(c, authorized) ==
    IF PostStatus(c, authorized) = 200 THEN NormalizedCommand(c) ELSE KIOSK_CONTROL

\* the response is kept while the run records the control exchanges
Recorded(x) ==
    IF "control" \in observing /\ Len(exchanges) < MaxExchanges
    THEN Append(exchanges, x) ELSE exchanges

\* post_kiosk_control, lines 217-227
PostKioskControl(c, authorized) ==
    /\ KIOSK_CONTROL' = ControlAfterPost(c, authorized)
    /\ exchanges' = Recorded([request |-> "post", command |-> c, authorized |-> authorized,
                              status |-> PostStatus(c, authorized),
                              before |-> KIOSK_CONTROL,
                              after |-> ControlAfterPost(c, authorized),
                              body |-> IF PostStatus(c, authorized) = 200
                                       THEN NormalizedCommand(c) ELSE ""])
    /\ UNCHANGED <<now, deadline, kioskVars, users, attendance, clock, calls, report,
                   ghostVars, pairVars, observing, lost, pauseVars>>

\* get_kiosk_control, lines 212-214: anyone may read the flag
GetKioskControl ==
    /\ "control" \in observing
    /\ Len(exchanges) < MaxExchanges
    /\ exchanges' = Recorded([request |-> "get", command |-> "", authorized |-> FALSE,
                              status |-> 200, before |-> KIOSK_CONTROL,
                              after |-> KIOSK_CONTROL, body |-> KIOSK_CONTROL])
    /\ UNCHANGED <<now, deadline, kioskVars, backendVars, ghostVars, pairVars, observing,
                   lost, pauseVars>>

\* ------------------------------------------------------------ backend: the attendance log
\* Timestamps are minutes; the day of a timestamp, and the window of a day
\* (datetime.combine(date, time.min) .. datetime.combine(date, time.max))
DayOf(t) == t \div MinutesPerDay

DayStart(d) == d * MinutesPerDay

DayEnd(d) == d * MinutesPerDay + (MinutesPerDay - 1)

NoCall == [pc |-> "new", name |-> "", now_ist |-> 0, new_type |-> "", read |-> {}]

NoReport == [code |-> 0, date |-> None, body |-> {}]

\* the rows of a user inside a window (the three filters of lines 175-177 and 290-292)
RowsIn(rows, user, start, end) ==
    {a \in rows : a.user_id = user /\ a.timestamp >= start /\ a.timestamp <= end}

EarliestRow(rows) == CHOOSE a \in rows : \A b \in rows : a.timestamp <= b.timestamp

\* order_by(timestamp.desc()).first(), lines 178-179 (the rows of one user carry
\* different timestamps)
LatestRow(rows) == CHOOSE a \in rows : \A b \in rows : a.timestamp >= b.timestamp

NewTypeAlwaysIn(last) == CLOCK_IN

\* lines 182-184; last is a set, empty for None
NewType(last) ==
    IF last # {} /\ (\E a \in last : a.event_type = CLOCK_IN) THEN CLOCK_OUT ELSE CLOCK_IN

LastEver(rows, user, now_ist) ==
    LET mine == {a \in rows : a.user_id = user}
    IN IF mine = {} THEN {} ELSE {LatestRow(mine)}

\* lines 173-180: the subject's most recent row of the current day, as a set of at most one
LastToday(rows, user, now_ist) ==
    LET today == RowsIn(rows, user, DayStart(DayOf(now_ist)), DayEnd(DayOf(now_ist)))
    IN IF today = {} THEN {} ELSE {LatestRow(today)}

NextRowId(rows) == IF rows = {} THEN 1 ELSE 1 + (CHOOSE i \in {a.id : a \in rows} :
                                                  \A a \in rows : a.id <= i)

WrittenTypeAtCommit(c) == NewType(LastToday(attendance, c.name, c.now_ist))

\* line 189: the row carries the type decided at lines 182-184
WrittenType(c) == c.new_type

\* clock_event, lines 165-171: look the user up (404 if unknown), read the clock
ClockLookup(r, name) ==
    /\ calls[r].pc = "new"
    /\ \A q \in 1..(r - 1) : calls[q].pc # "new"     \* requests are numbered as they arrive
    /\ clock < DayStart(1) - ClockLead + ClockSpan
    /\ IF name \in users
       THEN /\ calls' = [calls EXCEPT ![r] = [@ EXCEPT !.pc = "stamped", !.name = name,
                                                       !.now_ist = clock]]
            /\ clock' = clock + 1
       ELSE /\ calls' = [calls EXCEPT ![r] = [@ EXCEPT !.pc = "not_found", !.name = name]]
            /\ clock' = clock
    /\ UNCHANGED <<now, deadline, kioskVars, ghostVars, pairVars, auxVars, pauseVars,
                   KIOSK_CONTROL, users,
                   attendance, report>>

\* clock_event, lines 173-184: read the most recent row of today, decide the type
ClockRead(r) ==
    /\ calls[r].pc = "stamped"
    /\ calls' = [calls EXCEPT ![r] =
                    [@ EXCEPT !.pc = "decided",
                              !.new_type = NewType(LastToday(attendance, calls[r].name,
                                                                 calls[r].now_ist)),
                              !.read = attendance]]
    /\ UNCHANGED <<now, deadline, kioskVars, ghostVars, pairVars, auxVars, pauseVars,
                   KIOSK_CONTROL, users,
                   attendance, clock, report>>

\* clock_event, lines 186-203: insert and commit, or roll back on an error
ClockCommit(r, ok) ==
    /\ calls[r].pc = "decided"
    /\ IF ok
       THEN /\ attendance' = attendance \cup
                                {[id |-> NextRowId(attendance), user_id |-> calls[r].name,
                                  timestamp |-> calls[r].now_ist,
                                  event_type |-> WrittenType(calls[r]), call |-> r]}
            /\ calls' = [calls EXCEPT ![r] = [@ EXCEPT !.pc = "done"]]
       ELSE /\ attendance' = attendance
            /\ calls' = [calls EXCEPT ![r] = [@ EXCEPT !.pc = "failed"]]
    /\ UNCHANGED <<now, deadline, kioskVars, ghostVars, pairVars, auxVars, pauseVars,
                   KIOSK_CONTROL, users,
                   clock, report>>

\* delete_user, lines 388-404: 401 for a caller who is no admin, 404 for an unknown
\* user; else the user's rows and the user go in one commit
DeleteUser(name, authorized) ==
    /\ IF authorized /\ name \in users
       THEN /\ attendance' = {a \in attendance : a.user_id # name}
            /\ users' = users \ {name}
       ELSE UNCHANGED <<attendance, users>>
    /\ UNCHANGED <<now, deadline, kioskVars, ghostVars, pairVars, auxVars, pauseVars,
                   KIOSK_CONTROL, clock, calls, report>>

\* register_user, lines 96-132: 401 for a caller who is no admin, 409 for a name that
\* exists, 422 when the image does not show exactly one face; else the user is added
RegisterUser(name, authorized, oneFace) ==
    /\ users' = IF authorized /\ name \notin users /\ oneFace THEN users \cup {name} ELSE users
    /\ UNCHANGED <<now, deadline, kioskVars, ghostVars, pairVars, auxVars, pauseVars,
                   KIOSK_CONTROL, attendance, clock, calls, report>>

\* a minute passes on the server
ServerTick ==
    /\ clock < DayStart(1) - ClockLead + ClockSpan
    /\ clock' = clock + 1
    /\ UNCHANGED <<now, deadline, kioskVars, ghostVars, pairVars, auxVars, pauseVars,
                   KIOSK_CONTROL, users,
                   attendance, calls, report>>

\* ------------------------------------------------------------ backend: worked hours
\* the timestamps of drawn logs: 23:59 of day 0, then 00:00, 09:00, 09:10, 09:30
\* and 09:40 of day 1
Stamps == {DayEnd(0), DayStart(1), DayStart(1) + 540, DayStart(1) + 550,
           DayStart(1) + 570, DayStart(1) + 580}

Dates == 0..2

\* order_by(timestamp.asc()).all(), lines 288-295
RECURSIVE EventsAsc(_)
EventsAsc(rows) ==
    IF rows = {} THEN <<>>
    ELSE LET first == CHOOSE a \in rows : \A b \in rows : a.timestamp <= b.timestamp
         IN <<first>> \o EventsAsc(rows \ {first})

FoldStart == [total |-> 0, last_in |-> None, last_status |-> CLOCK_OUT]

FoldStepRestart(acc, e) ==
    IF e.event_type = CLOCK_IN
    THEN [acc EXCEPT !.last_status = e.event_type, !.last_in = e.timestamp]
    ELSE IF acc.last_in # None
         THEN [acc EXCEPT !.last_status = e.event_type,
                          !.total = @ + (e.timestamp - acc.last_in), !.last_in = None]
         ELSE [acc EXCEPT !.last_status = e.event_type]

FoldStepStatusOnOut(acc, e) ==
    IF e.event_type = CLOCK_IN
    THEN IF acc.last_in = None THEN [acc EXCEPT !.last_in = e.timestamp] ELSE acc
    ELSE IF acc.last_in # None
         THEN [acc EXCEPT !.last_status = e.event_type,
                          !.total = @ + (e.timestamp - acc.last_in), !.last_in = None]
         ELSE [acc EXCEPT !.last_status = e.event_type]

FoldStepKeepingIn(acc, e) ==
    LET a == [acc EXCEPT !.last_status = e.event_type]
    IN IF e.event_type = CLOCK_IN
       THEN IF a.last_in = None THEN [a EXCEPT !.last_in = e.timestamp] ELSE a
       ELSE IF a.last_in # None
            THEN [a EXCEPT !.total = @ + (e.timestamp - a.last_in)]
            ELSE a

\* the body of the loop over events, lines 300-308
FoldStep(acc, e) ==
    LET a == [acc EXCEPT !.last_status = e.event_type]
    IN IF e.event_type = CLOCK_IN
       THEN IF a.last_in = None THEN [a EXCEPT !.last_in = e.timestamp] ELSE a
       ELSE IF a.last_in # None
            THEN [a EXCEPT !.total = @ + (e.timestamp - a.last_in), !.last_in = None]
            ELSE a

\* lines 297-308
RECURSIVE FoldEvents(_, _)
FoldEvents(acc, events) ==
    IF events = <<>> THEN acc ELSE FoldEvents(FoldStep(acc, Head(events)), Tail(events))

\* round(total.total_seconds() / 3600, 2), line 310, of a whole number of minutes,
\* as a number of hundredths of an hour: 5m/3 is never halfway between two integers
RoundedHours(minutes) == (5 * minutes + 1) \div 3

\* lines 277-284: the users with a row inside the window
UsersInWindow(rows, us, start, end) == {u \in us : RowsIn(rows, u, start, end) # {}}

\* lines 286-317
HoursOutput(rows, us, start, end) ==
    {LET acc == FoldEvents(FoldStart, EventsAsc(RowsIn(rows, u, start, end)))
     IN [name |-> u, total_hours |-> RoundedHours(acc.total), status |-> acc.last_status]
     : u \in UsersInWindow(rows, us, start, end)}

\* get_total_hours: 401 without an admin, 422 for a malformed date, else the list
GetTotalHours(date, wellFormed, authorized) ==
    /\ report' = IF ~authorized THEN [code |-> 401, date |-> None, body |-> {}]
                 ELSE IF ~wellFormed THEN [code |-> 422, date |-> None, body |-> {}]
                 ELSE [code |-> 200, date |-> date,
                       body |-> HoursOutput(attendance, users, DayStart(date), DayEnd(date))]
    /\ UNCHANGED <<now, deadline, kioskVars, ghostVars, pairVars, auxVars, pauseVars,
                   KIOSK_CONTROL, users,
                   attendance, clock, calls>>

\* ------------------------------------------------------------ kiosk: the dispatch workers
\* call_clock_event, lines 88-100: each call starts one thread, the thread makes one
\* request and ends; the requests of a subject that reached the server
Arrived(n) == Cardinality({r \in 1..MaxCalls : calls[r].pc # "new" /\ calls[r].name = n})

PendingRetrying(n) == dispatched[n] - lost[n]

\* the worker threads of a subject that have not made their request yet
Pending(n) == dispatched[n] - Arrived(n) - lost[n]

\* line 92: a worker's request reaches the server, which starts to handle it; what
\* the worker does with the response (lines 93-99) is a log line and a sound
WorkerPost(r, n) ==
    /\ kpc = "loop"
    /\ Pending(n) > 0
    /\ ClockLookup(r, n)

WorkerFailsRollingBack(n) ==
    /\ kpc = "loop"
    /\ Pending(n) > 0
    /\ lost' = [lost EXCEPT ![n] = @ + 1]
    /\ presence_state' = [presence_state EXCEPT ![n] = [@ EXCEPT !.present = ~@]]
    /\ UNCHANGED <<now, deadline, kpc, cap, known_names, last_encoding_refresh, paused,
                   shutdown_requested, process_frame, last_control_poll, dispatched,
                   backendVars, ghostVars, pairVars, observing, exchanges, pauseVars>>

\* lines 92 and 97-99: the request fails before it reaches the server (no connection,
\* connect timeout); the worker logs the error and ends
WorkerFails(n) ==
    /\ kpc = "loop"
    /\ Pending(n) > 0
    /\ lost' = [lost EXCEPT ![n] = @ + 1]
    /\ UNCHANGED <<now, deadline, kioskVars, backendVars, ghostVars, pairVars, observing,
                   exchanges, pauseVars>>

\* ------------------------------------------------------------ the kiosk's specification
\* the log is empty when the server starts, shortly before midnight
InitLog ==
    /\ attendance = {}
    /\ clock = DayStart(1) - ClockLead

InitKiosk ==
    /\ now = StartTime
    /\ kpc = "start"
    /\ cap = "none"
    /\ known_names = {}
    /\ presence_state = << >>
    /\ last_encoding_refresh = 0
    /\ paused = FALSE
    /\ shutdown_requested = FALSE
    /\ process_frame = TRUE
    /\ last_control_poll = 0
    /\ dispatched = [n \in Names |-> 0]
    /\ KIOSK_CONTROL = "run"
    /\ users = Names
    /\ calls = [r \in 1..MaxCalls |-> NoCall]
    /\ report = NoReport
    /\ step = NoStep
    /\ emitted = [n \in Names |-> <<>>]
    /\ timer_start = [n \in Names |-> None]
    /\ unseen_gap = [n \in Names |-> FALSE]
    /\ runA = NewPresence
    /\ runB = NewPresence
    /\ nextA = None
    /\ nextB = None
    /\ extras = 0
    /\ exchanges = << >>
    /\ paused_at = None
    /\ resumed_at = None
    /\ lost = [n \in Names |-> 0]

Init ==
    /\ InitKiosk
    /\ InitLog
    /\ deadline = StartTime + Horizon
    /\ observing = {}

Next ==
    \/ \E ok \in BOOLEAN : Startup(ok)
    \/ \E ok \in BOOLEAN : OpenCamera(ok)
    \/ \E pollOK \in BOOLEAN : IterShutdown(pollOK)
    \/ \E pollOK, loadOK, reopened \in BOOLEAN : IterReadFailed(pollOK, loadOK, reopened)
    \/ \E pollOK, loadOK, quit \in BOOLEAN : IterPaused(pollOK, loadOK, quit)
    \/ \E pollOK, loadOK, quit \in BOOLEAN : IterSkipped(pollOK, loadOK, quit)
    \/ \E pollOK, loadOK, quit \in BOOLEAN : \E faces \in Frames(Names) :
          IterProcess(pollOK, loadOK, faces, quit)
    \/ \E pollOK, loadOK \in BOOLEAN : \E faces \in Frames(Names) : IterRaises(pollOK, loadOK, faces)
    \/ Tick
    \/ \E c \in Commands, a \in BOOLEAN : PostKioskControl(c, a)

Spec == Init /\ [][Next]_vars

\* ------------------------------------------------------------ the tracker, followed longer:
\* the camera works, nobody quits, the admin pauses and resumes
InitTracker ==
    /\ InitKiosk
    /\ InitLog
    /\ deadline = StartTime + TrackerHorizon
    /\ observing = {}

NextTracker ==
    \/ \E ok \in BOOLEAN : Startup(ok)
    \/ OpenCamera(TRUE)
    \/ \E pollOK, loadOK \in BOOLEAN : IterPaused(pollOK, loadOK, FALSE)
    \/ \E pollOK, loadOK \in BOOLEAN : IterSkipped(pollOK, loadOK, FALSE)
    \/ \E pollOK, loadOK \in BOOLEAN : \E faces \in Frames(Names) :
          IterProcess(pollOK, loadOK, faces, FALSE)
    \/ TickBusy
    \/ \E c \in {"run", "pause"} : PostKioskControl(c, TRUE)

SpecTracker == InitTracker /\ [][NextTracker]_vars

\* ------------------------------------------------------------ the kiosk and the log:
\* the tracker kept running as the only client of clock_event
InitDelivery ==
    /\ InitKiosk
    /\ InitLog
    /\ deadline = StartTime + DeliveryHorizon
    /\ observing = {}

NextDelivery ==
    \/ Startup(TRUE)
    \/ OpenCamera(TRUE)
    \/ IterSkipped(TRUE, TRUE, FALSE)
    \/ \E faces \in Frames(Names) : IterProcess(TRUE, TRUE, faces, FALSE)
    \/ TickBusy
    \/ \E r \in 1..MaxCalls, n \in Names : WorkerPost(r, n)
    \/ \E n \in Names : WorkerFails(n)
    \/ \E r \in 1..MaxCalls : ClockRead(r)
    \/ \E r \in 1..MaxCalls, ok \in BOOLEAN : ClockCommit(r, ok)

SpecDelivery == InitDelivery /\ [][NextDelivery]_vars

\* C15: in every reachable state the log holds, for each subject, at most as many
\* events as the tracker has confirmed transitions for that subject
C15_AtMostOnce ==
    \A n \in Names : Cardinality({a \in attendance : a.user_id = n}) <= Len(emitted[n])

\* both of a subject's confirmed transitions are in the log
C15_Witness ==
    \E n \in Names :
        /\ Len(emitted[n]) = 2
        /\ Cardinality({a \in attendance : a.user_id = n}) = 2

\* an iteration of the loop in this run
LoopIteration ==
    \/ IterSkipped(TRUE, TRUE, FALSE)
    \/ \E faces \in Frames(Names) : IterProcess(TRUE, TRUE, faces, FALSE)

\* a step of a dispatch worker, or of the server on a worker's request
DispatchStep == lost' # lost \/ calls' # calls \/ attendance' # attendance

\* C16: while dispatch workers are pending the loop can take its next iteration, and
\* no step of a worker or of its request, whatever the outcome, changes the kiosk's
\* memory: presence_state (present and last_marked included) stays as the loop left it
C16_DispatchDecoupled ==
    /\ [](kpc = "loop" /\ (\E n \in Names : Pending(n) > 0) => ENABLED LoopIteration)
    /\ [][DispatchStep => UNCHANGED <<presence_state, kioskVars>>]_vars

\* the request of the first transition's worker has failed, the loop has gone on to
\* confirm the opposite transition, and that one's worker is still pending
C16_Witness ==
    \E n \in Names :
        /\ step = "processed"
        /\ lost[n] = 1
        /\ Pending(n) = 1
        /\ Len(emitted[n]) = 2
        /\ emitted[n][1].type = CLOCK_IN
        /\ emitted[n][2].type = CLOCK_OUT
        /\ presence_state[n].present = FALSE

\* ------------------------------------------------------------ the kiosk through a pause:
\* the camera works, nobody quits, the admin pauses and resumes, and the run records
\* when the kiosk became paused and when it resumed
InitPause ==
    /\ InitKiosk
    /\ InitLog
    /\ deadline = StartTime + PauseHorizon
    /\ observing = {"pause"}

NextPause ==
    \/ Startup(TRUE)
    \/ OpenCamera(TRUE)
    \/ \E pollOK \in BOOLEAN : IterPaused(pollOK, TRUE, FALSE)
    \/ \E pollOK \in BOOLEAN : IterSkipped(pollOK, TRUE, FALSE)
    \/ \E pollOK \in BOOLEAN : \E faces \in Frames(Names) : IterProcess(pollOK, TRUE, faces, FALSE)
    \/ TickBusy
    \/ \E c \in {"run", "pause"} : PostKioskControl(c, TRUE)

SpecPause == InitPause /\ [][NextPause]_vars

\* C20: pausing clears no timer: while the kiosk is paused each subject's
\* detected_since is still the first sighting since its timer was last reset, and
\* its last_seen is a sighting from before the pause
C20_TimersSurvivePause ==
    (kpc = "loop" /\ paused /\ paused_at # None) =>
        \A n \in DOMAIN presence_state :
            /\ presence_state[n].detected_since =
                   (IF timer_start[n] = None THEN 0 ELSE timer_start[n])
            /\ presence_state[n].last_seen <= paused_at

\* the subject was sighted less than D seconds before the pause, the pause lasted
\* longer than D, and the frame processed as the kiosk resumes confirms a transition
\* counted from the sighting before the pause
C20_Witness ==
    /\ step = "processed"
    /\ paused_at # None
    /\ resumed_at = now
    /\ resumed_at - paused_at > MIN_DETECT_SECONDS
    /\ \E n \in Names :
          /\ Len(emitted[n]) = 1
          /\ emitted[n][1].t = resumed_at
          /\ emitted[n][1].since < paused_at
          /\ paused_at - emitted[n][1].since < MIN_DETECT_SECONDS

\* ------------------------------------------------------------ the kiosk left running
\* for ever: nobody is in view and nobody quits; the camera may fail to open and to
\* read, polls may fail, the admin posts run, pause and shutdown.  The program compares
\* only differences of clock values, so the clock is renumbered to keep it in a
\* finite range: the only clock values the kiosk holds in this run are
\* last_control_poll and last_encoding_refresh, and an age beyond StartTime is kept as
\* StartTime, which leaves every comparison of lines 144 unchanged and has the
\* gallery refresh of lines 153-155 (due after 300 s, and without effect while the
\* users stay the same) never come due
Earlier(t, k) == IF t > k THEN t - k ELSE 0

RollClock ==
    /\ kpc \in {"start", "camera", "loop"}
    /\ now > StartTime
    /\ now' = StartTime
    /\ last_control_poll' = Earlier(last_control_poll, now - StartTime)
    /\ last_encoding_refresh' = Earlier(last_encoding_refresh, now - StartTime)
    /\ UNCHANGED <<deadline, kpc, cap, known_names, presence_state, paused, shutdown_requested,
                   process_frame, dispatched, backendVars, ghostVars, pairVars, auxVars,
                   pauseVars>>

InitLive ==
    /\ InitKiosk
    /\ InitLog
    /\ deadline = StartTime + LiveSpan
    /\ observing = {}

\* an iteration of the main loop, whatever it meets
LoopStep ==
    \/ \E pollOK \in BOOLEAN : IterShutdown(pollOK)
    \/ \E pollOK, reopened \in BOOLEAN : IterReadFailed(pollOK, TRUE, reopened)
    \/ \E pollOK \in BOOLEAN : IterPaused(pollOK, TRUE, FALSE)
    \/ \E pollOK \in BOOLEAN : IterSkipped(pollOK, TRUE, FALSE)
    \/ \E pollOK \in BOOLEAN : IterProcess(pollOK, TRUE, << >>, FALSE)

\* an iteration whose control poll is due and is answered
PolledStep ==
    /\ PollDue
    /\ \/ IterShutdown(TRUE)
       \/ \E reopened \in BOOLEAN : IterReadFailed(TRUE, TRUE, reopened)
       \/ IterPaused(TRUE, TRUE, FALSE)
       \/ IterSkipped(TRUE, TRUE, FALSE)
       \/ IterProcess(TRUE, TRUE, << >>, FALSE)

NextLive ==
    \/ \E ok \in BOOLEAN : Startup(ok)
    \/ \E ok \in BOOLEAN : OpenCamera(ok)
    \/ LoopStep
    \/ TickBusy
    \/ RollClock
    \/ \E c \in {"run", "pause", "shutdown"} : PostKioskControl(c, TRUE)

\* main() is a running thread: it takes its next step, its sleeps end and the clock
\* goes on; of the control polls, made again and again, one is answered in the end
FairLive ==
    /\ WF_vars(\E ok \in BOOLEAN : Startup(ok))
    /\ WF_vars(\E ok \in BOOLEAN : OpenCamera(ok))
    /\ WF_vars(LoopStep)
    /\ WF_vars(TickBusy)
    /\ WF_vars(RollClock)
    /\ SF_vars(PolledStep)

SpecLive == InitLive /\ [][NextLive]_vars /\ FairLive

\* C11: a paused kiosk with the control state at run leaves the paused state, unless
\* the control state is changed again first
C11_PausedResumes ==
    (kpc = "loop" /\ paused /\ KIOSK_CONTROL = "run")
        ~> ((kpc = "loop" /\ ~paused) \/ KIOSK_CONTROL # "run")

\* the kiosk has gone round the loop paused, its latest poll is not yet 3 s old, and
\* the control state is back at run
C11_Witness ==
    /\ kpc = "loop"
    /\ paused
    /\ step = "paused"
    /\ KIOSK_CONTROL = "run"
    /\ now - last_control_poll <= CONTROL_POLL_SECONDS

\* C12: with the control state at shutdown the kiosk exits, from wherever main() is,
\* unless the control state is changed again first
C12_ShutdownExits ==
    (KIOSK_CONTROL = "shutdown" /\ kpc \in {"start", "camera", "loop"})
        ~> (kpc = "stopped" \/ KIOSK_CONTROL # "shutdown")

\* ------------------------------------------------------------ the kiosk through a
\* gallery refresh.  The refresh of lines 153-155 comes 300 s after the first load, so
\* the run is taken up where main() has made its first load (line 126, answered or
\* not) and GalleryWait attempts to open the camera (lines 130-135), 5 s apart, have
\* failed; nothing else has happened yet.  From there the camera opens, subjects come
\* into view, and an admin registers and deletes users
InitGallery ==
    /\ InitLog
    /\ observing = {}
    /\ now = StartTime + GalleryWait * CAMERA_RETRY_SLEEP
    /\ deadline = StartTime + GalleryWait * CAMERA_RETRY_SLEEP + GalleryHorizon
    /\ kpc = "camera"
    /\ cap = "unopened"
    /\ \E registered \in SUBSET Names, loadOK \in BOOLEAN :
          /\ users = registered
          /\ known_names = IF loadOK THEN registered ELSE {}
          /\ presence_state = IF loadOK THEN LoadedPresence(<< >>, registered) ELSE << >>
    /\ last_encoding_refresh = StartTime
    /\ paused = FALSE
    /\ shutdown_requested = FALSE
    /\ process_frame = TRUE
    /\ last_control_poll = 0
    /\ dispatched = [n \in Names |-> 0]
    /\ KIOSK_CONTROL = "run"
    /\ calls = [r \in 1..MaxCalls |-> NoCall]
    /\ report = NoReport
    /\ step = NoStep
    /\ emitted = [n \in Names |-> <<>>]
    /\ timer_start = [n \in Names |-> None]
    /\ unseen_gap = [n \in Names |-> FALSE]
    /\ runA = NewPresence
    /\ runB = NewPresence
    /\ nextA = None
    /\ nextB = None
    /\ extras = 0
    /\ exchanges = << >>
    /\ paused_at = None
    /\ resumed_at = None
    /\ lost = [n \in Names |-> 0]

NextGallery ==
    \/ OpenCamera(TRUE)
    \/ \E loadOK \in BOOLEAN : IterSkipped(TRUE, loadOK, FALSE)
    \/ \E loadOK \in BOOLEAN : \E faces \in Frames(Names) : IterProcess(TRUE, loadOK, faces, FALSE)
    \/ TickBusy
    \/ \E name \in Names : RegisterUser(name, TRUE, TRUE)
    \/ \E name \in Names : DeleteUser(name, TRUE)

SpecGallery == InitGallery /\ [][NextGallery]_vars

\* C24: every name in known_names has an entry in presence_state, and a load in the
\* present state, answered with the users of the moment, keeps every entry as it is
\* and gives the names without one an entry that is absent with all timers zero
C24_GalleryKeepsPresence ==
    /\ known_names \subseteq DOMAIN presence_state
    /\ \A n \in DOMAIN presence_state :
          /\ n \in DOMAIN LoadedPresence(presence_state, users)
          /\ LoadedPresence(presence_state, users)[n] = presence_state[n]
    /\ \A n \in users \ DOMAIN presence_state :
          LoadedPresence(presence_state, users)[n] = NewPresence

\* the refresh has been answered after the subject confirmed as present was deleted:
\* the gallery no longer has the name, its entry is kept as the tracker left it
C24_Witness ==
    /\ kpc = "loop"
    /\ last_encoding_refresh > StartTime
    /\ \E n \in DOMAIN presence_state :
          /\ n \notin known_names
          /\ n \notin users
          /\ presence_state[n].present
          /\ presence_state[n].last_marked > 0
    /\ \E n \in known_names : presence_state[n] = NewPresence

\* ------------------------------------------------------------ two runs of the tracker
\* The tracker's handling of one subject (Observe for a frame that shows the subject,
\* ResetUnseen for one that does not) applied to two frame sequences that differ only
\* in that run B is shown the subject in some frames run A is not, all of them while
\* the subject is confirmed present in both runs.
Unseen(st, now_ts) == ResetUnseen([s \in {"s"} |-> st], {}, now_ts)["s"]

NextAfter(nxt, st, seen, now_ts) ==
    IF extras' > 0 /\ nxt = None /\ seen /\ Confirms(st, now_ts) THEN now_ts ELSE nxt

PairFrame(seen) ==
    /\ runA' = IF seen THEN Observe(runA, now) ELSE Unseen(runA, now)
    /\ runB' = IF seen THEN Observe(runB, now) ELSE Unseen(runB, now)
    /\ extras' = extras
    /\ nextA' = NextAfter(nextA, runA, seen, now)
    /\ nextB' = NextAfter(nextB, runB, seen, now)
    /\ UNCHANGED <<now, deadline, kioskVars, backendVars, ghostVars, auxVars, pauseVars>>

PairExtra ==
    /\ runA.present /\ runB.present
    /\ nextA = None /\ nextB = None
    /\ extras < MaxExtras
    /\ runA' = Unseen(runA, now)
    /\ runB' = Observe(runB, now)
    /\ extras' = extras + 1
    /\ nextA' = nextA
    /\ nextB' = NextAfter(nextB, runB, TRUE, now)
    /\ UNCHANGED <<now, deadline, kioskVars, backendVars, ghostVars, auxVars, pauseVars>>

PairTick ==
    /\ now < deadline
    /\ now' = now + 1
    /\ UNCHANGED <<deadline, kioskVars, backendVars, ghostVars, pairVars, auxVars, pauseVars>>

InitPair ==
    /\ InitKiosk
    /\ InitLog
    /\ deadline = StartTime + PairHorizon
    /\ observing = {}

NextPair ==
    \/ \E seen \in BOOLEAN : PairFrame(seen)
    \/ PairExtra
    \/ PairTick

SpecPair == InitPair /\ [][NextPair]_vars

\* ------------------------------------------------------------ properties of the tracker
\* a transition of n is confirmed in this step
Fired(n) == Len(emitted'[n]) > Len(emitted[n])

\* the frame of this step is handled by the tracker and n is among its matched faces
Observed(n) ==
    \E pollOK, loadOK, quit \in BOOLEAN : \E faces \in Frames(Names) :
        /\ n \in SeenNames(faces)
        /\ \/ IterProcess(pollOK, loadOK, faces, quit)
           \/ IterRaises(pollOK, loadOK, faces)

LastFire(n) == IF emitted[n] = << >> THEN None ELSE emitted[n][Len(emitted[n])].t

C6_CooldownSpacing ==
    \A n \in Names : \A i \in 1..(Len(emitted[n]) - 1) :
        emitted[n][i + 1].t - emitted[n][i].t >= COOLDOWN_SECONDS

\* sighted again inside the cooldown of the one transition so far
C6_Witness ==
    \E n \in DOMAIN presence_state :
        /\ Len(emitted[n]) = 1
        /\ step = "processed"
        /\ presence_state[n].last_seen = now
        /\ now - emitted[n][1].t \in 1..(COOLDOWN_SECONDS - 1)

\* C21: with MIN_DETECT_SECONDS >= COOLDOWN_SECONDS, two consecutive confirmed
\* transitions of one subject are at least MIN_DETECT_SECONDS apart, and at no later
\* sighting is the cooldown test the one that blocks: whenever the window test of
\* line 209 would pass, the cooldown test of line 210 passes too
C21_WindowSpacing ==
    MIN_DETECT_SECONDS >= COOLDOWN_SECONDS =>
        /\ \A n \in Names : \A i \in 1..(Len(emitted[n]) - 1) :
              emitted[n][i + 1].t - emitted[n][i].t >= MIN_DETECT_SECONDS
        /\ \A n \in DOMAIN presence_state : \A t \in now..deadline :
              LET s == Sighted(presence_state[n], t)
              IN t - s.detected_since >= MIN_DETECT_SECONDS
                    => t - s.last_marked >= COOLDOWN_SECONDS

\* the second transition comes as early as it can, MIN_DETECT_SECONDS after the first
C21_Witness ==
    \E n \in Names :
        /\ Len(emitted[n]) = 2
        /\ emitted[n][2].t - emitted[n][1].t = MIN_DETECT_SECONDS
        /\ emitted[n][2].since = emitted[n][1].t

\* C7 (as claimed): when S is sighted after a gap longer than MIN_DETECT_SECONDS since its
\* previous sighting, its timer has been cleared before the sighting is evaluated, and
\* the sighting confirms nothing.
C7_ResetLaw ==
    [][\A n \in DOMAIN presence_state :
          (Observed(n) /\ now - presence_state[n].last_seen > MIN_DETECT_SECONDS)
             => (presence_state[n].detected_since = 0 /\ ~Fired(n))]_vars

\* C9 (as claimed): a transition logged as OUT is confirmed only for a subject who was
\* out of sight for some second since the transition before it.
C9_OutOnlyAfterAway ==
    \A n \in Names : \A i \in 1..Len(emitted[n]) :
        emitted[n][i].type = CLOCK_OUT => emitted[n][i].away

\* C10 (as claimed): a loop iteration that leaves the kiosk paused and running changes
\* no subject's presence state, confirms no transition, starts no dispatch, and the
\* capture that was open is still open after it.
C10_PausedKeepsCapture ==
    [][(kpc = "loop" /\ step' # NoStep /\ kpc' = "loop" /\ paused' /\ cap = "opened")
         => /\ emitted' = emitted
            /\ dispatched' = dispatched
            /\ \A n \in DOMAIN presence_state \cap DOMAIN presence_state' :
                  presence_state'[n] = presence_state[n]
            /\ cap' = "opened"]_vars

\* C10: a loop iteration that finds the kiosk paused changes no subject's presence
\* state, confirms no transition and starts no dispatch; it is the pause branch, which
\* leaves the capture open, or the failed read before it, which releases the capture
\* and creates a new one, or the operator's quit.
\* (A step from the loop that leaves step set is a loop iteration or changes nothing
\* of the kiosk.)
C10_PausedFrame ==
    [][(kpc = "loop" /\ step' # NoStep /\ ((kpc' = "loop" /\ paused') \/ step' = "paused_quit"))
         => /\ emitted' = emitted
            /\ dispatched' = dispatched
            /\ \A n \in DOMAIN presence_state \cap DOMAIN presence_state' :
                  presence_state'[n] = presence_state[n]
            /\ kpc' = "loop" => DOMAIN presence_state \subseteq DOMAIN presence_state'
            /\ step' = "paused" => (cap = "opened" /\ cap' = "opened")
            /\ step' \in {"paused", "paused_quit", "read_failed"}]_vars

\* a paused iteration that shows the frame while a subject's timer is running
C10_Witness ==
    /\ step = "paused"
    /\ paused
    /\ cap = "opened"
    /\ \E n \in DOMAIN presence_state : presence_state[n].detected_since # 0

\* C8 (as claimed): sightings of S added while S is already confirmed present do not
\* change when S's next transition is confirmed: the two runs confirm it at the same time.
C8_SameNextTransition ==
    (nextA # None /\ nextB # None) => nextA = nextB

\* ------------------------------------------------------------ the control endpoints
InitControl ==
    /\ InitKiosk
    /\ InitLog
    /\ deadline = StartTime
    /\ observing = {"control"}

NextControl ==
    \/ \E c \in Commands, a \in BOOLEAN : PostKioskControl(c, a)
    \/ GetKioskControl

SpecControl == InitControl /\ [][NextControl]_vars

\* the control state a client is told of by the exchanges before the i-th
RECURSIVE LastWritten(_)
LastWritten(i) ==
    IF i = 0 THEN "run"
    ELSE IF exchanges[i].request = "post" /\ exchanges[i].status = 200
         THEN exchanges[i].body
         ELSE LastWritten(i - 1)

\* what lower-casing makes of the commands a client may post
Spelt(word) == {c \in Commands : c = word \/ Lower(c) = word}

\* C17: an authorized write of stop or pause (in any letter case) sets the control state
\* to pause, of run to run, of shutdown to shutdown; a read returns the state set by
\* the latest accepted write, and run when there was none.
C17_ControlNormalized ==
    /\ \A i \in 1..Len(exchanges) :
          LET x == exchanges[i]
          IN /\ (x.request = "post" /\ x.authorized /\ x.command \in Spelt("stop") \cup Spelt("pause"))
                   => (x.after = "pause" /\ x.status = 200)
             /\ (x.request = "post" /\ x.authorized /\ x.command \in Spelt("run"))
                   => (x.after = "run" /\ x.status = 200)
             /\ (x.request = "post" /\ x.authorized /\ x.command \in Spelt("shutdown"))
                   => (x.after = "shutdown" /\ x.status = 200)
             /\ x.request = "get" => x.body = LastWritten(i - 1)
    /\ Len(exchanges) < MaxExchanges => KIOSK_CONTROL = LastWritten(Len(exchanges))

\* an authorized STOP, then a read that returns pause
C17_Witness ==
    /\ Len(exchanges) >= 2
    /\ \E i \in 1..(Len(exchanges) - 1) :
          /\ exchanges[i].request = "post"
          /\ exchanges[i].command = "STOP"
          /\ exchanges[i].authorized
          /\ exchanges[i].before = "run"
          /\ exchanges[i + 1].request = "get"
          /\ exchanges[i + 1].body = "pause"

\* C18: a write that is rejected (401 for a caller who is no admin, 400 for a command
\* other than run, pause, shutdown, stop) leaves the control state as it was, and the
\* control state is always one of run, pause, shutdown.
C18_RejectedWriteNoEffect ==
    /\ KIOSK_CONTROL \in {"run", "pause", "shutdown"}
    /\ \A i \in 1..Len(exchanges) :
          LET x == exchanges[i]
          IN /\ x.status # 200 => x.after = x.before
             /\ (x.request = "post" /\ ~x.authorized) => x.status = 401
             /\ (x.request = "post" /\ x.authorized /\
                    x.command \notin Spelt("run") \cup Spelt("pause") \cup Spelt("shutdown")
                                     \cup Spelt("stop"))
                   => x.status = 400

\* after an accepted pause: a shutdown from a caller who is no admin, and an admin's
\* reboot, both rejected
C18_Witness ==
    /\ Len(exchanges) = 3
    /\ exchanges[1].status = 200 /\ exchanges[1].after = "pause"
    /\ exchanges[2].command = "shutdown" /\ exchanges[2].status = 401
    /\ exchanges[3].command = "reboot" /\ exchanges[3].status = 400
    /\ KIOSK_CONTROL = "pause"

\* ------------------------------------------------------------ how the kiosk ends
\* C13 (as claimed): main() has ended, by whatever path, only with the capture released:
\* no ended kiosk still holds an opened capture.
C13_ReleasedOnEveryExit ==
    kpc \in {"stopped", "crashed"} => cap # "opened"

\* C14 (as claimed): an exception raised while a frame is resolved or processed is
\* confined to that iteration: after it the kiosk is still in its loop.
C14_FrameErrorIsolated ==
    step = "raised" => kpc = "loop"

\* ------------------------------------------------------------ the server's run
InitBackend == InitKiosk /\ InitLog /\ deadline = StartTime /\ observing = {}

NextBackend ==
    \/ \E r \in 1..MaxCalls, name \in Names \cup {"mallory"} : ClockLookup(r, name)
    \/ \E r \in 1..MaxCalls : ClockRead(r)
    \/ \E r \in 1..MaxCalls, ok \in BOOLEAN : ClockCommit(r, ok)
    \/ ServerTick

SpecBackend == InitBackend /\ [][NextBackend]_vars

\* ------------------------------------------------------------ the log and its subjects
NextLog ==
    \/ NextBackend
    \/ \E name \in Names \cup {"mallory"}, authorized \in BOOLEAN : DeleteUser(name, authorized)

SpecLog == InitBackend /\ [][NextLog]_vars

\* C19 (as claimed): a row of the log stays as it is unless its subject is deleted, and
\* after every step each row of the log belongs to a subject of the users table.
C19_AppendOnlyNoOrphans ==
    [][/\ \A a \in attendance : a \in attendance' \/ a.user_id \notin users'
       /\ \A a \in attendance' : a.user_id \in users']_vars

\* ------------------------------------------------------------ the server's run with
\* the requests of one subject one after the other
\* a request of a subject arrives only when the subject's earlier requests are answered
SerialLookup(r, name) ==
    /\ \A q \in 1..MaxCalls :
          calls[q].name = name => calls[q].pc \in {"new", "not_found", "done", "failed"}
    /\ ClockLookup(r, name)

NextSerial ==
    \/ \E r \in 1..MaxCalls, name \in Names \cup {"mallory"} : SerialLookup(r, name)
    \/ \E r \in 1..MaxCalls : ClockRead(r)
    \/ \E r \in 1..MaxCalls, ok \in BOOLEAN : ClockCommit(r, ok)
    \/ ServerTick

SpecSerial == InitBackend /\ [][NextSerial]_vars

\* ------------------------------------------------------------ the same run, with an
\* admin asking for the worked hours of the days the clock has reached
NextDays ==
    \/ NextSerial
    \/ \E date \in 0..DayOf(clock) : GetTotalHours(date, TRUE, TRUE)

SpecDays == InitBackend /\ [][NextDays]_vars

\* ------------------------------------------------------------ reports over drawn logs
\* a log: some of the stamps carry a row of a user and a type
DrawnLogs ==
    {[st \in S |-> ut[st]] : S \in {T \in SUBSET Stamps : Cardinality(T) <= MaxRows},
                             ut \in [Stamps -> Names \X {CLOCK_IN, CLOCK_OUT}]}

RowsOf(log) ==
    {[id |-> Cardinality({t \in DOMAIN log : t <= st}), user_id |-> log[st][1],
      timestamp |-> st, event_type |-> log[st][2], call |-> 0] : st \in DOMAIN log}

InitHours ==
    /\ InitKiosk
    /\ deadline = StartTime
    /\ observing = {}
    /\ clock = DayStart(2)
    /\ \E log \in DrawnLogs : attendance = RowsOf(log)

NextHours ==
    \E date \in Dates, wellFormed \in BOOLEAN, authorized \in BOOLEAN :
        GetTotalHours(date, wellFormed, authorized)

SpecHours == InitHours /\ [][NextHours]_vars

\* ------------------------------------------------------------ claims about the log
Done == {r \in 1..MaxCalls : calls[r].pc = "done"}

RowsBy(r) == {a \in attendance : a.call = r}

\* the subject's rows of the request's day that the request's read could see
SeenToday(r) ==
    {a \in calls[r].read : /\ a.user_id = calls[r].name
                           /\ DayOf(a.timestamp) = DayOf(calls[r].now_ist)}

\* the type the log seen by the read calls for: IN if the subject has no row on
\* that day or the row with the greatest timestamp is an OUT, OUT if it is an IN
TypeCalledFor(r) ==
    IF SeenToday(r) = {} THEN CLOCK_IN
    ELSE IF \E a \in SeenToday(r) : /\ a.event_type = CLOCK_IN
                                    /\ \A b \in SeenToday(r) : b.timestamp <= a.timestamp
         THEN CLOCK_OUT
         ELSE CLOCK_IN

\* C2: every completed clock_event of a known subject has appended exactly one row,
\* stamped with the request's time, whose type is IN when the subject's most recent
\* row of the current day (as read by the request) is missing or an OUT, and OUT
\* when it is an IN; requests that did not complete have appended nothing.
C2_TypeFromLog ==
    /\ \A r \in Done :
          /\ Cardinality(RowsBy(r)) = 1
          /\ \A a \in RowsBy(r) : /\ a.user_id = calls[r].name
                                  /\ a.timestamp = calls[r].now_ist
                                  /\ a.event_type = TypeCalledFor(r)
    /\ \A r \in (1..MaxCalls) \ Done : RowsBy(r) = {}
    /\ Cardinality(attendance) = Cardinality(Done)

\* a subject clocked in before midnight, then out, and in again after midnight
C2_Witness ==
    \E r1, r2, r3 \in Done :
        /\ calls[r1].name = calls[r2].name /\ calls[r2].name = calls[r3].name
        /\ calls[r1].now_ist < calls[r2].now_ist /\ calls[r2].now_ist < calls[r3].now_ist
        /\ DayOf(calls[r2].now_ist) = 0 /\ DayOf(calls[r3].now_ist) = 1
        /\ \E a \in RowsBy(r1) : a.event_type = CLOCK_IN
        /\ \E a \in RowsBy(r2) : a.event_type = CLOCK_OUT
        /\ \E a \in RowsBy(r3) : a.event_type = CLOCK_IN
        /\ SeenToday(r3) = {} /\ calls[r3].read # {}

\* the rows of a subject on a day, in timestamp order
DayEvents(u, d) == EventsAsc(RowsIn(attendance, u, DayStart(d), DayEnd(d)))

\* the days the server's clock passes through
Days == DayOf(DayStart(1) - ClockLead)..DayOf(DayStart(1) - ClockLead + ClockSpan)

\* C22: with the requests of each subject one after the other and no subject deleted,
\* the rows of a subject on one day, in timestamp order, are IN, OUT, IN, OUT, ...:
\* the first is an IN and no two neighbours have the same type
C22_DayAlternates ==
    \A u \in Names : \A d \in Days :
        \A i \in 1..Len(DayEvents(u, d)) :
            DayEvents(u, d)[i].event_type = IF i % 2 = 1 THEN CLOCK_IN ELSE CLOCK_OUT

\* three answered requests of one subject on one day have left IN, OUT, IN
C22_Witness ==
    \E u \in Names : \E d \in Days :
        /\ Len(DayEvents(u, d)) = 3
        /\ DayEvents(u, d)[3].event_type = CLOCK_IN
        /\ \A r \in 1..MaxCalls : calls[r].pc = "done" /\ calls[r].name = u

\* C3: two completed requests of one subject whose reads saw the same rows of the
\* subject (neither had committed when the other read) have both appended a row of
\* the same type.
C3_RaceDuplicates ==
    \A r1, r2 \in Done :
        (/\ r1 # r2
         /\ calls[r1].name = calls[r2].name
         /\ DayOf(calls[r1].now_ist) = DayOf(calls[r2].now_ist)
         /\ SeenToday(r1) = SeenToday(r2))
        => \A a \in RowsBy(r1), b \in RowsBy(r2) : a.event_type = b.event_type

\* the log holds two consecutive OUT rows of one subject on one day, written by two
\* requests that both read the subject's IN
C3_Witness ==
    \E r1, r2 \in Done :
        /\ r1 # r2
        /\ calls[r1].name = calls[r2].name
        /\ SeenToday(r1) = SeenToday(r2)
        /\ SeenToday(r1) # {}
        /\ \E a \in RowsBy(r1), b \in RowsBy(r2) :
              /\ a.event_type = CLOCK_OUT /\ b.event_type = CLOCK_OUT
              /\ a.timestamp < b.timestamp
              /\ ~ \E c \in attendance : /\ c.user_id = a.user_id
                                         /\ a.timestamp < c.timestamp
                                         /\ c.timestamp < b.timestamp

\* ------------------------------------------------------------ claims about worked hours
\* the rows of a subject inside the window of the reported date
Window(u) == RowsIn(attendance, u, DayStart(report.date), DayEnd(report.date))

RECURSIVE SumOf(_, _)
SumOf(f, S) == IF S = {} THEN 0 ELSE LET x == CHOOSE y \in S : TRUE
                                     IN f[x] + SumOf(f, S \ {x})

\* what an OUT row adds: its timestamp minus that of the first IN after the previous
\* OUT (after the start of the window if there is none), nothing without such an IN
Contribution(rows, o) ==
    LET outs == {p \in rows : p.event_type = CLOCK_OUT /\ p.timestamp < o.timestamp}
        ins == {i \in rows : /\ i.event_type = CLOCK_IN
                             /\ i.timestamp < o.timestamp
                             /\ \A p \in outs : p.timestamp < i.timestamp}
    IN IF ins = {} THEN 0
       ELSE o.timestamp - (CHOOSE t \in {i.timestamp : i \in ins} :
                              \A i \in ins : t <= i.timestamp)

Worked(rows) ==
    LET outs == {o \in rows : o.event_type = CLOCK_OUT}
    IN SumOf([o \in outs |-> Contribution(rows, o)], outs)

\* C4: the total reported for a subject is the sum, over the OUT rows of the window,
\* of the OUT's timestamp minus the first IN since the previous OUT, an OUT without
\* such an IN and a trailing IN adding nothing; the rows need not alternate.
C4_TotalIsPairedSum ==
    report.code = 200 =>
        \A e \in report.body : e.total_hours = RoundedHours(Worked(Window(e.name)))

\* the report of a day on which a subject's rows are IN 09:00, IN 09:10, OUT 09:40, and
\* another's only row is an OUT at 00:00
C4_Witness ==
    /\ report.code = 200
    /\ report.date = 1
    /\ \E e \in report.body :
          /\ e.total_hours = 67
          /\ {<<a.timestamp - DayStart(1), a.event_type>> : a \in Window(e.name)}
                = {<<540, CLOCK_IN>>, <<550, CLOCK_IN>>, <<580, CLOCK_OUT>>}
    /\ \E e \in report.body :
          /\ e.total_hours = 0
          /\ {<<a.timestamp - DayStart(1), a.event_type>> : a \in Window(e.name)}
                = {<<0, CLOCK_OUT>>}

\* the subject's rows the request's read could see
SeenEver(r) == {a \in calls[r].read : a.user_id = calls[r].name}

\* C23: a request whose subject has rows, the latest of them on an earlier day, writes
\* an IN whatever the type of that latest row; and the hours reported for a date are
\* those of the rows of that date alone, so an IN left open the day before is paired
\* with nothing
C23_DayBoundary ==
    /\ [](\A r \in Done :
            (SeenEver(r) # {} /\ SeenToday(r) = {}) =>
                \A a \in RowsBy(r) : a.event_type = CLOCK_IN)
    /\ [][(report' # report /\ report'.code = 200) =>
            \A e \in report'.body :
                e.total_hours =
                    RoundedHours(Worked(RowsIn(attendance, e.name, DayStart(report'.date),
                                               DayEnd(report'.date))))]_vars

\* a subject's rows are an IN on day 0, then an IN and an OUT on day 1, each request
\* answered before the next; the report of day 1 counts the minute between the IN
\* and the OUT of day 1
C23_Witness ==
    \E u \in Names :
        /\ Len(DayEvents(u, 0)) = 1
        /\ DayEvents(u, 0)[1].event_type = CLOCK_IN
        /\ Len(DayEvents(u, 1)) = 2
        /\ DayEvents(u, 1)[1].event_type = CLOCK_IN
        /\ DayEvents(u, 1)[2].event_type = CLOCK_OUT
        /\ report.code = 200
        /\ report.date = 1
        /\ \E e \in report.body :
              /\ e.name = u
              /\ e.total_hours = RoundedHours(DayEvents(u, 1)[2].timestamp
                                                 - DayEvents(u, 1)[1].timestamp)
              /\ e.total_hours < RoundedHours(DayEvents(u, 1)[2].timestamp
                                                 - DayEvents(u, 0)[1].timestamp)

\* from the first to the last row of a set of rows
Span(rows) ==
    IF rows = {} THEN 0
    ELSE LatestRow(rows).timestamp
            - (CHOOSE t \in {a.timestamp : a \in rows} : \A a \in rows : t <= a.timestamp)

C5_StatusOrOutIfNone ==
    report.code = 200 =>
        \A u \in users : \E e \in report.body :
            /\ e.name = u
            /\ e.status = IF Window(u) = {} THEN CLOCK_OUT
                          ELSE LatestRow(Window(u)).event_type

\* C5: a subject with a row in the window is reported once, with the type of its
\* chronologically last row there; a subject with no row in the window is not
\* reported at all.
C5_StatusOfLastEvent ==
    report.code = 200 =>
        /\ \A e \in report.body :
              /\ Window(e.name) # {}
              /\ \A a \in Window(e.name) :
                    (\A b \in Window(e.name) : b.timestamp <= a.timestamp)
                        => e.status = a.event_type
        /\ \A u \in users :
              Cardinality({e \in report.body : e.name = u})
                  = IF Window(u) = {} THEN 0 ELSE 1

\* a report where one subject's last row is an IN that follows a completed pair, and
\* the other subject, whose rows are all outside the window, is absent
C5_Witness ==
    /\ report.code = 200
    /\ \E e \in report.body :
          /\ e.status = CLOCK_IN
          /\ e.total_hours > 0
    /\ \E u \in users :
          /\ Window(u) = {}
          /\ \E a \in attendance : a.user_id = u
          /\ ~ \E e \in report.body : e.name = u

====
